---- MODULE Spec2Model ----
(***************************************************************************)
(* The allocation decision engine agentAllocateSingle of the lab-access    *)
(* service: a request for numSystems workstations on a date and time       *)
(* window is served directly, served by relocating existing allocations    *)
(* (minimal reshuffle), or rejected.  The store (requests, systems,        *)
(* allocations) is shared by concurrent invocations; every await of the     *)
(* function is a step of its own.  The AdminDashboard component, which     *)
(* allocates by hand or with the agentAllocate callable and keeps its own  *)
(* per-slot allocation documents, is modelled on the same collections.     *)
(***************************************************************************)
EXTENDS Integers, Sequences, FiniteSets, TLC

(***************************************************************************)
(* Bounds of the model.                                                    *)
(***************************************************************************)
\* the registry holds systems 1..NumSystems
NumSystems == 8
\* numSystems of a request ranges up to MaxDemand
MaxDemand == 2
\* Date.now() ranges over 0..MaxClock
MaxClock == 1

\* concurrent callers of the entry point
Procs == {1, 2}
\* ids of the stored requests; MissingId resolves to no request
ReqIds == {1, 2}
MissingId == Cardinality(ReqIds) + 1
\* calendar dates; every initial allocation is on FirstDate
Dates == {1, 2}
FirstDate == CHOOSE d \in Dates : \A e \in Dates : d <= e
\* (inTime, outTime) of requests and allocations, each "HH:MM" string as the
\* pair of numbers split(":").map(Number) yields: the first and the third
\* window touch without overlapping, the second overlaps both
WindowSeq == <<<<<<9, 0>>, <<10, 0>>>>, <<<<9, 30>>, <<10, 30>>>>, <<<<10, 0>>, <<11, 0>>>>>>
Windows == {WindowSeq[i] : i \in DOMAIN WindowSeq}

(***************************************************************************)
(* Program constants.                                                      *)
(***************************************************************************)
RESERVED_I7 == 2
RESERVED_I9 == 3

\* the seeded registry numbers the i9 systems first; here the i7 class has
\* one system more than its reserve
LastI9 == NumSystems - (RESERVED_I7 + 1)

VARIABLES
    systems,      \* collection "systems", ordered by systemNumber
    requests,     \* collection "requests": id -> RequestDoc
    allocations,  \* collection "allocations": a set of AllocationDoc, one per id
    now,          \* Date.now()
    pc,           \* position of each invocation
    arg,          \* requestId of each invocation
    req,          \* the RequestDoc each invocation read
    plan,         \* chosen, reshuffles and planId of each invocation
    result,       \* what each invocation returned
    dashboard     \* state of the AdminDashboard component

vars == <<systems, requests, allocations, now, pc, arg, req, plan, result, dashboard>>

(***************************************************************************)
(* Helpers on sequences and sets.                                          *)
(***************************************************************************)
Range(s) == {s[i] : i \in DOMAIN s}

Max(a, b) == IF a > b THEN a ELSE b

Min(a, b) == IF a < b THEN a ELSE b

\* Array.prototype.sort((a,b)=>a-b) of distinct numbers
RECURSIVE SortAsc(_)
SortAsc(S) ==
    IF S = {} THEN <<>>
    ELSE LET m == CHOOSE x \in S : \A y \in S : x <= y
         IN <<m>> \o SortAsc(S \ {m})

\* Array.prototype.slice(-k): the last k elements, all of them when fewer
SliceLast(s, k) == {s[i] : i \in {j \in DOMAIN s : j > Len(s) - k}}

\* Array.prototype.slice(0, k)
SliceFirst(s, k) == SubSeq(s, 1, Min(k, Len(s)))

\* Array.prototype.map(n => n === from ? to : n)
MapReplace(s, from, to) == [i \in DOMAIN s |-> IF s[i] = from THEN to ELSE s[i]]

(***************************************************************************)
(* TimeWindow utilities.                                                   *)
(***************************************************************************)
toMinutes(t) == t[1] * 60 + t[2]

\* overlaps with a closed-interval test
overlapsClosed(aS, aE, bS, bE) == Max(aS, bS) <= Min(aE, bE)

overlaps(aS, aE, bS, bE) == Max(aS, bS) < Min(aE, bE)

\* overlaps(toMinutes(x.inTime), toMinutes(x.outTime), toMinutes(y.inTime), ...)
DocsOverlap(x, y) ==
    overlaps(toMinutes(x.inTime), toMinutes(x.outTime),
             toMinutes(y.inTime), toMinutes(y.outTime))

(***************************************************************************)
(* Documents.  An allocation id is the pair (requestId, stamp) of          *)
(* `alloc_${req.id}_${Date.now()}`; allocations that exist before the      *)
(* first attempt have requestId 0.                                         *)
(***************************************************************************)
SysNums == 1 .. NumSystems

SystemDoc(n, st) ==
    [systemNumber |-> n, type |-> IF n <= LastI9 THEN "i9" ELSE "i7", status |-> st]

NoReq == [id |-> 0, loginId |-> 0, date |-> 0, inTime |-> <<0, 0>>, outTime |-> <<0, 0>>,
          numSystems |-> 0, status |-> "none"]

NoPlan == [chosen |-> <<>>, reshuffles |-> <<>>, planId |-> <<0, 0>>]

NoResult == [ok |-> FALSE, mode |-> "", reason |-> "", chosen |-> <<>>, reshuffles |-> <<>>]

\* no invocation of handleAiAllocate is waiting for agentAllocate
NoAi == [active |-> FALSE, req |-> NoReq, need |-> 0, free |-> <<>>,
         systems |-> <<>>, allocations |-> {}]

\* no call of writeAllocations was made
NoCall == [by |-> "", requestId |-> 0, systemNumbers |-> <<>>, slotText |-> <<>>]

\* the component as mounted: useState([]), useState({}), useState(null);
\* lastWrite is the last call of writeAllocations
NoDashboard ==
    [systems |-> <<>>, pendingRequests |-> <<>>, allocations |-> {},
     selectedDate |-> FirstDate, allocTarget |-> NoReq, unavailability |-> {},
     ai |-> NoAi, lastWrite |-> NoCall]

Failure(reason) ==
    [ok |-> FALSE, mode |-> "", reason |-> reason, chosen |-> <<>>, reshuffles |-> <<>>]

Success(mode, chosen, reshuffles) ==
    [ok |-> TRUE, mode |-> mode, reason |-> "", chosen |-> chosen, reshuffles |-> reshuffles]

\* loginId stands for the requester identity (loginId and requesterName are
\* copied together)
AllocationDoc(id, r, chosen) ==
    [id |-> id, requestId |-> r.id, loginId |-> r.loginId, systems |-> chosen, date |-> r.date,
     inTime |-> r.inTime, outTime |-> r.outTime, createdBy |-> "agent"]

\* the order in which a query returns documents: by document id
IdLess(a, b) == a[1] < b[1] \/ (a[1] = b[1] /\ a[2] < b[2])

RECURSIVE SortById(_)
SortById(S) ==
    IF S = {} THEN <<>>
    ELSE LET m == CHOOSE x \in S : \A y \in S \ {x} : IdLess(x.id, y.id)
         IN <<m>> \o SortById(S \ {m})

(***************************************************************************)
(* ResourcePool view: the reserved set of each class.                      *)
(***************************************************************************)
\* systems.filter(s => s.type === ty).map(s => s.systemNumber).sort(...)
TypeNums(sys, ty) ==
    SortAsc({sys[i].systemNumber : i \in {j \in DOMAIN sys : sys[j].type = ty}})

reservedI7(sys) == SliceLast(TypeNums(sys, "i7"), RESERVED_I7)

reservedI9(sys) == SliceLast(TypeNums(sys, "i9"), RESERVED_I9)

\* isRes with the reserved count of i7 used for both classes
isResSameCount(sys, s) ==
    IF s.type = "i7" THEN s.systemNumber \in reservedI7(sys)
    ELSE s.systemNumber \in SliceLast(TypeNums(sys, "i9"), RESERVED_I7)

isRes(sys, s) ==
    IF s.type = "i7" THEN s.systemNumber \in reservedI7(sys)
    ELSE s.systemNumber \in reservedI9(sys)

\* the system numbers of the documents of sys at the positions idx, in order
NumsAt(sys, idx) ==
    LET o == SortAsc(idx)
    IN [k \in DOMAIN o |-> sys[o[k]].systemNumber]

(***************************************************************************)
(* Commitment ledger view and availability analysis.                       *)
(***************************************************************************)
\* AllocationsOn without the date filter
AllocationsAnyDate(store, date) == SortById(store)

\* db.collection("allocations").where("date","==", date).get()
AllocationsOn(store, date) == SortById({a \in store : a.date = date})

\* the allocations of the snapshot whose window overlaps [s, e)
OverlapIdx(allocs, s, e) ==
    {i \in DOMAIN allocs :
        overlaps(s, e, toMinutes(allocs[i].inTime), toMinutes(allocs[i].outTime))}

busy(allocs, s, e) == UNION {Range(allocs[i].systems) : i \in OverlapIdx(allocs, s, e)}

\* nonReservedFree without the maintenance test
nonReservedFreeAnyStatus(sys, busySet) ==
    NumsAt(sys, {i \in DOMAIN sys : /\ ~isRes(sys, sys[i])
                                     /\ sys[i].systemNumber \notin busySet})

nonReservedFree(sys, busySet) ==
    NumsAt(sys, {i \in DOMAIN sys : /\ ~isRes(sys, sys[i])
                                     /\ sys[i].systemNumber \notin busySet
                                     /\ sys[i].status # "maintenance"})

\* need without Math.max: req.numSystems || 1
needNoMax(r) ==
    IF "numSystems" \notin DOMAIN r \/ r.numSystems = 0 THEN 1 ELSE r.numSystems

\* Math.max(1, req.numSystems || 1); a document without the field reads as
\* undefined
need(r) ==
    Max(1, IF "numSystems" \notin DOMAIN r \/ r.numSystems = 0 THEN 1 ELSE r.numSystems)

(***************************************************************************)
(* Reshuffle allocator.                                                    *)
(***************************************************************************)
nonReservedAll(sys) ==
    NumsAt(sys, {i \in DOMAIN sys : ~isRes(sys, sys[i])})

\* sysToOverlaps.get(n): the allocations of the snapshot that overlap [s, e)
\* and hold n, as indices into the snapshot, in snapshot order.  It is built
\* once, before any relocation rewrites an allocation in memory.
sysToOverlaps(allocs, s, e, n) ==
    SortAsc({i \in OverlapIdx(allocs, s, e) : n \in Range(allocs[i].systems)})

\* busyForAlloc that counts only the allocations with allocation i's own start
busyForAllocSameStart(allocs, i) ==
    UNION {Range(allocs[j].systems) :
             j \in {k \in DOMAIN allocs : /\ allocs[k].id # allocs[i].id
                                          /\ allocs[k].inTime = allocs[i].inTime}}

\* the systems of every other allocation overlapping allocation i's own window
busyForAlloc(allocs, i) ==
    UNION {Range(allocs[j].systems) :
             j \in {k \in DOMAIN allocs : /\ allocs[k].id # allocs[i].id
                                          /\ DocsOverlap(allocs[i], allocs[k])}}

\* candidateTargets that takes every other system, busy for the allocation or not
candidateTargetsAnyBusy(nra, bfa, sysNum) ==
    SelectSeq(nra, LAMBDA n : n # sysNum)

\* candidateTargets without the exclusion of the source system
candidateTargetsWithSource(nra, bfa, sysNum) ==
    SelectSeq(nra, LAMBDA n : n \notin bfa)

candidateTargets(nra, bfa, sysNum) ==
    SelectSeq(nra, LAMBDA n : n \notin bfa /\ n # sysNum)

\* the first allocation of ov (a sequence of indices) that has a candidate
\* target, as a position in ov; 0 when none has
RECURSIVE FirstMovable(_, _, _, _, _)
FirstMovable(ov, p, allocs, nra, sysNum) ==
    IF p > Len(ov) THEN 0
    ELSE IF Len(candidateTargets(nra, busyForAlloc(allocs, ov[p]), sysNum)) > 0 THEN p
    ELSE FirstMovable(ov, p + 1, allocs, nra, sysNum)

\* one iteration of `for (const sysNum of nonReservedAll)` on the state
\* st = [busy, allocs, chosen, reshuffles]; ov0 is the snapshot as read
ReshuffleStep(st, sysNum, nra, ov0, s, e) ==
    IF sysNum \notin st.busy
    THEN [st EXCEPT !.chosen = Append(@, sysNum)]
    ELSE LET ov == sysToOverlaps(ov0, s, e, sysNum)
             p  == FirstMovable(ov, 1, st.allocs, nra, sysNum)
         IN IF p = 0 THEN st
            ELSE LET i      == ov[p]
                     target == candidateTargets(nra, busyForAlloc(st.allocs, i), sysNum)[1]
                 IN [busy       |-> st.busy \ {sysNum},
                     allocs     |-> [st.allocs EXCEPT
                                        ![i].systems = MapReplace(@, sysNum, target)],
                     chosen     |-> Append(st.chosen, sysNum),
                     reshuffles |-> Append(st.reshuffles,
                                           [moveAllocationId |-> st.allocs[i].id,
                                            from |-> sysNum, to |-> target])]

\* ReshuffleLoop without the break at `chosen.length >= need`
RECURSIVE ReshuffleLoopNoBreak(_, _, _, _, _, _, _)
ReshuffleLoopNoBreak(k, st, nra, ov0, s, e, needN) ==
    IF k > Len(nra) THEN st
    ELSE ReshuffleLoopNoBreak(k + 1, ReshuffleStep(st, nra[k], nra, ov0, s, e),
                              nra, ov0, s, e, needN)

RECURSIVE ReshuffleLoop(_, _, _, _, _, _, _)
ReshuffleLoop(k, st, nra, ov0, s, e, needN) ==
    IF k > Len(nra) \/ Len(st.chosen) >= needN THEN st
    ELSE ReshuffleLoop(k + 1, ReshuffleStep(st, nra[k], nra, ov0, s, e),
                       nra, ov0, s, e, needN)

\* the planning pass of agentAllocateSingle, from the request read and the
\* two snapshots: which commit follows, and with what
Planning(r, sys, allocs) ==
    LET s     == toMinutes(r.inTime)
        e     == toMinutes(r.outTime)
        b     == busy(allocs, s, e)
        free  == nonReservedFree(sys, b)
        needN == need(r)
    IN IF Len(free) >= needN
       THEN [kind |-> "direct", chosen |-> SliceFirst(free, needN), reshuffles |-> <<>>]
       ELSE LET st == ReshuffleLoop(1, [busy |-> b, allocs |-> allocs,
                                        chosen |-> <<>>, reshuffles |-> <<>>],
                                    nonReservedAll(sys), allocs, s, e, needN)
            IN IF Len(st.chosen) >= needN
               THEN [kind |-> "minimal_reshuffle", chosen |-> st.chosen,
                     reshuffles |-> st.reshuffles]
               ELSE [kind |-> "reject", chosen |-> st.chosen, reshuffles |-> st.reshuffles]

(***************************************************************************)
(* The ledger invariant: two allocations of one date whose windows overlap *)
(* hold disjoint systems.                                                  *)
(***************************************************************************)
Conflict(a, b) ==
    /\ a.id # b.id
    /\ a.date = b.date
    /\ DocsOverlap(a, b)
    /\ Range(a.systems) \cap Range(b.systems) # {}

LedgerDisjoint(store) == \A a, b \in store : ~Conflict(a, b)

(***************************************************************************)
(* Initial states: the seeded registry, pending requests, and a ledger     *)
(* that satisfies the ledger invariant.                                    *)
(***************************************************************************)
SeededSystems == [n \in SysNums |-> SystemDoc(n, "available")]

\* at most one system, outside the reserved sets, is stored in maintenance
InitSystems ==
    {[n \in SysNums |-> SystemDoc(n, IF n \in m THEN "maintenance" ELSE "available")] :
        m \in {{}} \cup {{n} : n \in Range(nonReservedAll(SeededSystems))}}

RequestDoc(id, date, w, n) ==
    [id |-> id, loginId |-> id, date |-> date, inTime |-> w[1], outTime |-> w[2],
     numSystems |-> n, status |-> "pending"]

\* request 1 is on FirstDate with any window and any demand; request 2 has the
\* window that overlaps every other, the largest demand, and any date
InitRequests ==
    {[i \in ReqIds |-> IF i = 1 THEN RequestDoc(1, FirstDate, w, n)
                                ELSE RequestDoc(i, d, WindowSeq[2], MaxDemand)] :
        w \in Windows, n \in 0 .. MaxDemand, d \in Dates}

\* the ledger before the first attempt holds at most two allocations, each of
\* one system in one window, with ids in the order of (system, window)
InitSlots == Range(nonReservedAll(SeededSystems)) \X DOMAIN WindowSeq

SlotLess(x, y) == x[1] < y[1] \/ (x[1] = y[1] /\ x[2] < y[2])

InitAllocationDoc(x, S) ==
    [id |-> <<0, 1 + Cardinality({y \in S : SlotLess(y, x)})>>, requestId |-> 0,
     loginId |-> 0, systems |-> <<x[1]>>, date |-> FirstDate,
     inTime |-> WindowSeq[x[2]][1], outTime |-> WindowSeq[x[2]][2], createdBy |-> "admin"]

InitLedgers ==
    {L \in {{InitAllocationDoc(x, S) : x \in S} :
                S \in {{}} \cup {{x, y} : x, y \in InitSlots}} :
        LedgerDisjoint(L)}

Init ==
    /\ systems \in InitSystems
    /\ requests \in InitRequests
    /\ allocations \in InitLedgers
    /\ now = 0
    /\ pc = [p \in Procs |-> "idle"]
    /\ arg = [p \in Procs |-> 0]
    /\ req = [p \in Procs |-> NoReq]
    /\ plan = [p \in Procs |-> NoPlan]
    /\ result = [p \in Procs |-> NoResult]
    /\ dashboard = NoDashboard

(***************************************************************************)
(* agentAllocateSingle(requestId), one action per await.                   *)
(***************************************************************************)
\* GetRequest without the early return for a request that is not pending
GetRequestNoPendingCheck(p, requestId) ==
    /\ pc[p] = "idle"
    /\ arg' = [arg EXCEPT ![p] = requestId]
    /\ IF requestId \notin DOMAIN requests
       THEN /\ pc' = [pc EXCEPT ![p] = "returned"]
            /\ result' = [result EXCEPT ![p] = Failure("request_not_found")]
            /\ req' = req
       ELSE /\ pc' = [pc EXCEPT ![p] = "getAllocations"]
            /\ req' = [req EXCEPT ![p] = requests[requestId]]
            /\ result' = result
    /\ UNCHANGED <<dashboard, systems, requests, allocations, now, plan>>

\* GetRequest that stores a rejected stub for an id that resolves to nothing
GetRequestStoresMissing(p, requestId) ==
    /\ pc[p] = "idle"
    /\ arg' = [arg EXCEPT ![p] = requestId]
    /\ IF requestId \notin DOMAIN requests
       THEN /\ pc' = [pc EXCEPT ![p] = "returned"]
            /\ result' = [result EXCEPT ![p] = Failure("request_not_found")]
            /\ req' = req
            /\ requests' = [i \in DOMAIN requests \cup {requestId} |->
                              IF i = requestId
                              THEN [NoReq EXCEPT !.id = requestId, !.status = "rejected"]
                              ELSE requests[i]]
       ELSE IF requests[requestId].status # "pending"
       THEN /\ pc' = [pc EXCEPT ![p] = "returned"]
            /\ result' = [result EXCEPT ![p] = Failure("not_pending")]
            /\ req' = req
            /\ requests' = requests
       ELSE /\ pc' = [pc EXCEPT ![p] = "getAllocations"]
            /\ req' = [req EXCEPT ![p] = requests[requestId]]
            /\ result' = result
            /\ requests' = requests
    /\ UNCHANGED <<dashboard, systems, allocations, now, plan>>

\* the call, and `await rqRef.get()` with the two early returns
GetRequest(p, requestId) ==
    /\ pc[p] = "idle"
    /\ arg' = [arg EXCEPT ![p] = requestId]
    /\ IF requestId \notin DOMAIN requests
       THEN /\ pc' = [pc EXCEPT ![p] = "returned"]
            /\ result' = [result EXCEPT ![p] = Failure("request_not_found")]
            /\ req' = req
       ELSE IF requests[requestId].status # "pending"
       THEN /\ pc' = [pc EXCEPT ![p] = "returned"]
            /\ result' = [result EXCEPT ![p] = Failure("not_pending")]
            /\ req' = req
       ELSE /\ pc' = [pc EXCEPT ![p] = "getAllocations"]
            /\ req' = [req EXCEPT ![p] = requests[requestId]]
            /\ result' = result
    /\ UNCHANGED <<dashboard, systems, requests, allocations, now, plan>>

\* `await ...collection("systems")...get()`, `await ...collection("allocations")
\* ...get()` and the planning pass, which runs without suspension up to the
\* call of runTransaction or rqRef.update.  No action writes systems, so the
\* two reads are one step.  The direct path takes planId from Date.now() here.
GetAllocations(p) ==
    /\ pc[p] = "getAllocations"
    /\ LET pl == Planning(req[p], systems, AllocationsOn(allocations, req[p].date))
       IN /\ pc' = [pc EXCEPT ![p] =
                      CASE pl.kind = "direct" -> "txDirect"
                        [] pl.kind = "minimal_reshuffle" -> "txReshuffle"
                        [] OTHER -> "reject"]
          /\ \E stamp \in (IF pl.kind = "direct" THEN now .. MaxClock ELSE {now}) :
                /\ now' = stamp
                /\ plan' = [plan EXCEPT ![p] =
                              [chosen |-> pl.chosen, reshuffles |-> pl.reshuffles,
                               planId |-> IF pl.kind = "direct" THEN <<req[p].id, stamp>>
                                          ELSE <<0, 0>>]]
    /\ UNCHANGED <<dashboard, systems, requests, allocations, arg, req, result>>

\* tx.set(db.doc(`allocations/${id}`), doc): the document of that id is replaced
TxSet(store, doc) == {a \in store : a.id # doc.id} \cup {doc}

\* tx.update(db.doc(`requests/${id}`), { status })
SetStatus(rq, id, st) == [rq EXCEPT ![id].status = st]

\* TxDirect that also stores the chosen systems as reserved
TxDirectReserves(p) ==
    /\ pc[p] = "txDirect"
    /\ allocations' = TxSet(allocations, AllocationDoc(plan[p].planId, req[p], plan[p].chosen))
    /\ requests' = SetStatus(requests, req[p].id, "accepted")
    /\ systems' = [n \in DOMAIN systems |->
                     IF systems[n].systemNumber \in Range(plan[p].chosen)
                     THEN [systems[n] EXCEPT !.status = "reserved"] ELSE systems[n]]
    /\ pc' = [pc EXCEPT ![p] = "returned"]
    /\ result' = [result EXCEPT ![p] = Success("direct", plan[p].chosen, <<>>)]
    /\ UNCHANGED <<dashboard, now, arg, req, plan>>

\* the transaction of the direct path
TxDirect(p) ==
    /\ pc[p] = "txDirect"
    /\ allocations' = TxSet(allocations, AllocationDoc(plan[p].planId, req[p], plan[p].chosen))
    /\ requests' = SetStatus(requests, req[p].id, "accepted")
    /\ pc' = [pc EXCEPT ![p] = "returned"]
    /\ result' = [result EXCEPT ![p] = Success("direct", plan[p].chosen, <<>>)]
    /\ UNCHANGED <<dashboard, systems, now, arg, req, plan>>

\* TxMoves whose write replaces the document by one that has only its systems
RECURSIVE TxMovesSet(_, _, _, _, _)
TxMovesSet(rs, i, store, out, wrote) ==
    IF i > Len(rs) THEN [threw |-> FALSE, store |-> out]
    ELSE IF wrote THEN [threw |-> TRUE, store |-> store]
    ELSE LET snap == {a \in store : a.id = rs[i].moveAllocationId}
         IN IF snap = {} THEN TxMovesSet(rs, i + 1, store, out, wrote)
            ELSE LET data == CHOOSE a \in snap : TRUE
                     upd  == [id |-> data.id, requestId |-> 0, loginId |-> 0,
                              systems |-> MapReplace(data.systems, rs[i].from, rs[i].to),
                              date |-> 0, inTime |-> <<0, 0>>, outTime |-> <<0, 0>>,
                              createdBy |-> ""]
                 IN TxMovesSet(rs, i + 1, store, TxSet(out, upd), TRUE)

\* TxMoves that deletes the relocated document and stores it under a new id
RECURSIVE TxMovesReinsert(_, _, _, _, _)
TxMovesReinsert(rs, i, store, out, wrote) ==
    IF i > Len(rs) THEN [threw |-> FALSE, store |-> out]
    ELSE IF wrote THEN [threw |-> TRUE, store |-> store]
    ELSE LET snap == {a \in store : a.id = rs[i].moveAllocationId}
         IN IF snap = {} THEN TxMovesReinsert(rs, i + 1, store, out, wrote)
            ELSE LET data == CHOOSE a \in snap : TRUE
                     upd  == [data EXCEPT !.systems = MapReplace(@, rs[i].from, rs[i].to),
                                          !.id = <<MissingId, data.id[2]>>]
                 IN TxMovesReinsert(rs, i + 1, store, TxSet(out \ {data}, upd), TRUE)

\* the loop `for (const r of reshuffles)` of the reshuffle transaction on the
\* committed store: tx.get reads the committed document, tx.update queues a
\* write into out.  The Firestore SDK's Transaction.get throws when the
\* transaction has already queued a write ("all reads before all writes"),
\* which rejects runTransaction without writing anything.
RECURSIVE TxMoves(_, _, _, _, _)
TxMoves(rs, i, store, out, wrote) ==
    IF i > Len(rs) THEN [threw |-> FALSE, store |-> out]
    ELSE IF wrote THEN [threw |-> TRUE, store |-> store]
    ELSE LET snap == {a \in store : a.id = rs[i].moveAllocationId}
         IN IF snap = {} THEN TxMoves(rs, i + 1, store, out, wrote)
            ELSE LET data == CHOOSE a \in snap : TRUE
                     upd  == [data EXCEPT !.systems = MapReplace(@, rs[i].from, rs[i].to)]
                 IN TxMoves(rs, i + 1, store, TxSet(out, upd), TRUE)

\* the transaction of the reshuffle path; planId takes Date.now() inside it
TxReshuffle(p, stamp) ==
    /\ pc[p] = "txReshuffle"
    /\ LET moved  == TxMoves(plan[p].reshuffles, 1, allocations, allocations, FALSE)
           planId == <<req[p].id, stamp>>
           need_  == need(req[p])
       IN IF moved.threw
          THEN /\ pc' = [pc EXCEPT ![p] = "threw"]
               /\ stamp = now
               /\ UNCHANGED <<requests, allocations, now, plan, result>>
          ELSE /\ allocations' = TxSet(moved.store,
                                       AllocationDoc(planId, req[p],
                                                     SliceFirst(plan[p].chosen, need_)))
               /\ requests' = SetStatus(requests, req[p].id, "accepted")
               /\ now' = stamp
               /\ plan' = [plan EXCEPT ![p].planId = planId]
               /\ pc' = [pc EXCEPT ![p] = "returned"]
               /\ result' = [result EXCEPT ![p] =
                                Success("minimal_reshuffle",
                                        SliceFirst(plan[p].chosen, need_),
                                        plan[p].reshuffles)]
    /\ UNCHANGED <<dashboard, systems, arg, req>>

\* Reject that also writes the relocations the failed pass made in memory
RejectPersistsMoves(p) ==
    /\ pc[p] = "reject"
    /\ requests' = SetStatus(requests, req[p].id, "rejected")
    /\ allocations' = TxMoves(plan[p].reshuffles, 1, allocations, allocations, FALSE).store
    /\ pc' = [pc EXCEPT ![p] = "returned"]
    /\ result' = [result EXCEPT ![p] = Failure("no_feasible_plan")]
    /\ UNCHANGED <<dashboard, systems, now, arg, req, plan>>

\* `await rqRef.update({ status: "rejected" })` and the failure return
Reject(p) ==
    /\ pc[p] = "reject"
    /\ requests' = SetStatus(requests, req[p].id, "rejected")
    /\ pc' = [pc EXCEPT ![p] = "returned"]
    /\ result' = [result EXCEPT ![p] = Failure("no_feasible_plan")]
    /\ UNCHANGED <<dashboard, systems, allocations, now, arg, req, plan>>

agentAllocateSingle(p) ==
    \/ \E requestId \in ReqIds \cup {MissingId} : GetRequest(p, requestId)
    \/ GetAllocations(p)
    \/ TxDirect(p)
    \/ \E stamp \in now .. MaxClock : TxReshuffle(p, stamp)
    \/ Reject(p)

\* the caller takes the outcome (or the exception); a later call may follow
Return(p) ==
    /\ pc[p] \in {"returned", "threw"}
    /\ pc' = [pc EXCEPT ![p] = "idle"]
    /\ arg' = [arg EXCEPT ![p] = 0]
    /\ req' = [req EXCEPT ![p] = NoReq]
    /\ plan' = [plan EXCEPT ![p] = NoPlan]
    /\ result' = [result EXCEPT ![p] = NoResult]
    /\ UNCHANGED <<dashboard, systems, requests, allocations, now>>

\* concurrent invocations, one per caller, on a registry without maintenance
\* and a request 1 that states its demand
InitConc ==
    /\ Init
    /\ systems = SeededSystems
    /\ requests[1].numSystems >= 1

Next == \E p \in Procs : agentAllocateSingle(p)

Spec == InitConc /\ [][Next]_vars

\* concurrent invocations where caller 1 invokes again after each return, so
\* that three attempts overlap; both requests are on FirstDate and ask for
\* MaxDemand systems
InitRetry ==
    /\ InitConc
    /\ \A i \in ReqIds : requests[i].date = FirstDate /\ requests[i].numSystems = MaxDemand

NextRetry == (\E p \in Procs : agentAllocateSingle(p)) \/ Return(1)

SpecRetry == InitRetry /\ [][NextRetry]_vars

\* invocations one at a time: each returns before the next is made
NextSeq == agentAllocateSingle(1) \/ Return(1)

SpecSeq == Init /\ [][NextSeq]_vars

\* one attempt on request 1 over a ledger of many short allocations in which
\* no system is directly free: five windows, each overlapping only its
\* neighbours in the sequence; the request has the middle one
FineWindowSeq ==
    <<<<<<9, 0>>, <<9, 30>>>>, <<<<9, 0>>, <<10, 0>>>>, <<<<9, 30>>, <<10, 30>>>>,
      <<<<10, 0>>, <<11, 0>>>>, <<<<10, 30>>, <<11, 0>>>>>>

MidIndex == (Len(FineWindowSeq) + 1) \div 2

MidWindow == FineWindowSeq[MidIndex]

FineOverlap(i, j) ==
    overlaps(toMinutes(FineWindowSeq[i][1]), toMinutes(FineWindowSeq[i][2]),
             toMinutes(FineWindowSeq[j][1]), toMinutes(FineWindowSeq[j][2]))

\* the sets of windows one system can be held in without breaking the ledger
\* invariant, one of them overlapping the middle window
BusyWindowSets ==
    {W \in SUBSET DOMAIN FineWindowSeq :
        /\ \A i, j \in W : i # j => ~FineOverlap(i, j)
        /\ \E i \in W : FineOverlap(i, MidIndex)}

FineAllocationDoc(n, w) ==
    [id |-> <<0, (n - 1) * Len(FineWindowSeq) + w>>, requestId |-> 0, loginId |-> 0,
     systems |-> <<n>>, date |-> FirstDate,
     inTime |-> FineWindowSeq[w][1], outTime |-> FineWindowSeq[w][2], createdBy |-> "admin"]

\* every ledger of one-system allocations that satisfies the ledger invariant
\* and makes every system of sys outside the reserved sets busy in the middle
\* window
FineLedgers(sys) ==
    {UNION {{FineAllocationDoc(n, w) : w \in f[n]} : n \in Range(nonReservedAll(sys))} :
        f \in [Range(nonReservedAll(sys)) -> BusyWindowSets]}

InitPlan ==
    /\ systems = SeededSystems
    /\ requests \in {[i \in ReqIds |->
                        IF i = 1 THEN RequestDoc(1, FirstDate, MidWindow, n)
                        ELSE RequestDoc(i, FirstDate + 1, MidWindow, 1)] :
                     n \in 1 .. MaxDemand}
    /\ allocations \in FineLedgers(systems)
    /\ now = 0
    /\ pc = [p \in Procs |-> "idle"]
    /\ arg = [p \in Procs |-> 0]
    /\ req = [p \in Procs |-> NoReq]
    /\ plan = [p \in Procs |-> NoPlan]
    /\ result = [p \in Procs |-> NoResult]
    /\ dashboard = NoDashboard

\* the direct path is never taken from these ledgers
NextPlan ==
    \/ GetRequest(1, 1)
    \/ GetAllocations(1)
    \/ \E stamp \in now .. MaxClock : TxReshuffle(1, stamp)
    \/ Reject(1)

SpecPlan == InitPlan /\ [][NextPlan]_vars

\* one attempt on request 1 whose stored demand is any integer from -1 up, or
\* is missing from the document
RequestDocNoDemand(id, date, w) ==
    [id |-> id, loginId |-> id, date |-> date, inTime |-> w[1], outTime |-> w[2],
     status |-> "pending"]

InitDemand ==
    /\ systems \in InitSystems
    /\ \E w \in Windows :
          \/ requests = [i \in ReqIds |-> RequestDocNoDemand(i, FirstDate, w)]
          \/ \E n \in -1 .. MaxDemand :
                requests = [i \in ReqIds |-> RequestDoc(i, FirstDate, w, n)]
    /\ allocations \in InitLedgers
    /\ now = 0
    /\ pc = [p \in Procs |-> "idle"]
    /\ arg = [p \in Procs |-> 0]
    /\ req = [p \in Procs |-> NoReq]
    /\ plan = [p \in Procs |-> NoPlan]
    /\ result = [p \in Procs |-> NoResult]
    /\ dashboard = NoDashboard

\* no pass over these ledgers ends without a plan
NextDemand ==
    \/ GetRequest(1, 1)
    \/ GetAllocations(1)
    \/ TxDirect(1)
    \/ \E stamp \in now .. MaxClock : TxReshuffle(1, stamp)

SpecDemand == InitDemand /\ [][NextDemand]_vars

(***************************************************************************)
(* The AdminDashboard component: its listeners, the manual allocation      *)
(* dialog, AI allocation and the effect that rejects pending requests.     *)
(* An allocation of the dashboard is one document per system and hourly    *)
(* slot, with id rangeKey(date, systemNumber, slotIdx).                    *)
(***************************************************************************)
SLOT_COUNT == 14

OPEN_MINUTES == 8 * 60

CLOSE_MINUTES == 22 * 60

SLOT_BLOCK_MIN == (CLOSE_MINUTES - OPEN_MINUTES) \div SLOT_COUNT

\* the indexes of the hourly slots a time range overlaps
slotsCovered(inTime, outTime) ==
    {i \in 0 .. SLOT_COUNT - 1 :
        overlaps(toMinutes(inTime), toMinutes(outTime),
                 OPEN_MINUTES + i * SLOT_BLOCK_MIN,
                 OPEN_MINUTES + i * SLOT_BLOCK_MIN + SLOT_BLOCK_MIN)}

\* `${date}__sys${sys}__slot${slotIdx}`
rangeKey(date, sys, slotIdx) == <<date, sys, slotIdx>>

AllocationRec(r, n, slotIdx, inTime, outTime) ==
    [id |-> rangeKey(r.date, n, slotIdx), date |-> r.date, slotIdx |-> slotIdx,
     systemNumber |-> n, requestId |-> r.id, loginId |-> r.loginId,
     inTime |-> inTime, outTime |-> outTime]

\* allocations[rangeKey(date, n, i)] is set for some i of span
Booked(allocs, date, n, span) ==
    \E a \in allocs : \E i \in span : a.id = rangeKey(date, n, i)

systemsUnavailableForRange(sys, allocs, date, inTime, outTime) ==
    {sys[k].systemNumber : k \in {j \in DOMAIN sys : sys[j].status = "maintenance"}}
    \cup {rec.systemNumber :
            rec \in {a \in allocs : a.date = date
                                     /\ a.slotIdx \in slotsCovered(inTime, outTime)}}

freeSystemsForRange(sys, allocs, date, inTime, outTime, excludeReservedForAI) ==
    NumsAt(sys, {k \in DOMAIN sys :
                   /\ sys[k].systemNumber
                        \notin systemsUnavailableForRange(sys, allocs, date, inTime, outTime)
                   /\ ~(excludeReservedForAI /\ sys[k].status = "reserved")
                   /\ sys[k].status # "maintenance"})

\* text.split(/[,\s]+/)...map(Number).filter(...): the text is its sequence of
\* numeric tokens
parseSystems(text) == SelectSeq(text, LAMBDA n : n >= 1 /\ n <= 1000)

\* /^\d{2}:\d{2}-\d{2}:\d{2}$/.test(allocTime): a text of that form is the
\* pair of its two times, any other text is the empty tuple
WellFormed(allocTime) == Len(allocTime) = 2

\* the request document after batch.update(..., { status: "approved",
\* allocatedSystems })
Approved(r, systemNumbers) ==
    [f \in DOMAIN r \cup {"allocatedSystems"} |->
        IF f = "allocatedSystems" THEN systemNumbers
        ELSE IF f = "status" THEN "approved" ELSE r[f]]

\* writeAllocations(req, systemNumbers, slotText) with the systems of the
\* render it was called from: the batch, or the TypeError of `sys.id` for a
\* number that render does not know, which is thrown before the commit
writeAllocations(sys, r, systemNumbers, inTime, outTime) ==
    IF \E i \in DOMAIN systemNumbers :
          \A k \in DOMAIN sys : sys[k].systemNumber # systemNumbers[i]
    THEN [threw |-> TRUE, systems |-> systems, allocations |-> allocations,
          requests |-> requests]
    ELSE [threw |-> FALSE,
          systems |-> [k \in DOMAIN systems |->
                         IF systems[k].systemNumber \in Range(systemNumbers)
                         THEN [systems[k] EXCEPT !.status = "reserved"]
                         ELSE systems[k]],
          allocations |->
              {a \in allocations :
                  \A n \in Range(systemNumbers), i \in slotsCovered(inTime, outTime) :
                      a.id # rangeKey(r.date, n, i)}
              \cup {AllocationRec(r, n, i, inTime, outTime) :
                      n \in Range(systemNumbers), i \in slotsCovered(inTime, outTime)},
          requests |-> [requests EXCEPT ![r.id] = Approved(requests[r.id], systemNumbers)]]

\* the systems the checks and the callable are tried with: the first
\* MaxDemand systems and a number no system has
Entered == (1 .. MaxDemand) \cup {NumSystems + 1}

\* the number of systems the effect below tests for
ALL_SYSTEMS == 33

REJECTION_REASON == "All systems are under maintenance for the selected day."

\* the request document after updateDoc(..., { status: "rejected",
\* rejectionReason })
Rejected(r) ==
    [f \in DOMAIN r \cup {"rejectionReason"} |->
        IF f = "rejectionReason" THEN REJECTION_REASON
        ELSE IF f = "status" THEN "rejected" ELSE r[f]]

\* the effect without the test of systems.length
autoRejectAnyCount(sys, pending) ==
    IF \A k \in DOMAIN sys : sys[k].status = "maintenance"
    THEN [i \in DOMAIN requests |->
            IF \E k \in DOMAIN pending : pending[k].id = i
            THEN Rejected(requests[i]) ELSE requests[i]]
    ELSE requests

\* useEffect(..., [systems]): the requests collection after the effect ran
\* with the systems and pendingRequests of the render
autoReject(sys, pending) ==
    IF /\ Len(sys) = ALL_SYSTEMS
       /\ \A k \in DOMAIN sys : sys[k].status = "maintenance"
    THEN [i \in DOMAIN requests |->
            IF \E k \in DOMAIN pending : pending[k].id = i
            THEN Rejected(requests[i]) ELSE requests[i]]
    ELSE requests

\* onSnapshot(qSys, ...): setSystems, the render, and the effect on [systems]
SnapSystems ==
    /\ dashboard.systems # systems
    /\ dashboard' = [dashboard EXCEPT !.systems = systems]
    /\ requests' = autoReject(systems, dashboard.pendingRequests)
    /\ UNCHANGED <<systems, allocations, now, pc, arg, req, plan, result>>

\* the documents of the query where("status", "==", "pending"), by id
PendingRows ==
    LET ids == SortAsc({i \in DOMAIN requests : requests[i].status = "pending"})
    IN [k \in DOMAIN ids |-> requests[ids[k]]]

\* onSnapshot(qReq, ...): the rows replace the list and its unavailability
\* flags
SnapRequests ==
    /\ dashboard.pendingRequests # PendingRows
    /\ dashboard' = [dashboard EXCEPT !.pendingRequests = PendingRows,
                                      !.unavailability = {}]
    /\ UNCHANGED <<systems, requests, allocations, now, pc, arg, req, plan, result>>

\* onSnapshot(qAlloc, ...) of the query where("date", "==", selectedDate)
SnapAllocations ==
    /\ dashboard.allocations # {a \in allocations : a.date = dashboard.selectedDate}
    /\ dashboard' = [dashboard EXCEPT
                       !.allocations = {a \in allocations : a.date = dashboard.selectedDate}]
    /\ UNCHANGED <<systems, requests, allocations, now, pc, arg, req, plan, result>>

handleMaintenanceToggle(systemNumber, toMaintenance) ==
    /\ \E k \in DOMAIN dashboard.systems : dashboard.systems[k].systemNumber = systemNumber
    /\ systems' = [systems EXCEPT ![systemNumber].status =
                                     IF toMaintenance THEN "maintenance" ELSE "available"]
    /\ UNCHANGED <<requests, allocations, now, pc, arg, req, plan, result, dashboard>>

handleReserveToggle(systemNumber, toReserved) ==
    /\ \E k \in DOMAIN dashboard.systems : dashboard.systems[k].systemNumber = systemNumber
    /\ systems' = [systems EXCEPT ![systemNumber].status =
                                     IF toReserved THEN "reserved" ELSE "available"]
    /\ UNCHANGED <<requests, allocations, now, pc, arg, req, plan, result, dashboard>>

\* openAllocate(req) for a row of the pending list
openAllocate(r) ==
    /\ r \in Range(dashboard.pendingRequests)
    /\ LET free == freeSystemsForRange(dashboard.systems, dashboard.allocations,
                                       r.date, r.inTime, r.outTime, FALSE)
       IN dashboard' = [dashboard EXCEPT
                          !.allocTarget = r,
                          !.unavailability = IF Len(free) = 0 THEN @ \cup {r.id}
                                             ELSE @ \ {r.id}]
    /\ UNCHANGED <<systems, requests, allocations, now, pc, arg, req, plan, result>>

\* the validation of handleAllocateConfirm without the maintenance test
manualRefusalNoMaintenance(sys, allocs, target, nums, allocTime) ==
    IF Len(nums) = 0 THEN "Enter system numbers"
    ELSE IF ~WellFormed(allocTime) THEN "Invalid slot"
    ELSE IF \E i \in DOMAIN nums : \A k \in DOMAIN sys : sys[k].systemNumber # nums[i]
    THEN "Invalid systems"
    ELSE IF \E i \in DOMAIN nums :
               Booked(allocs, target.date, nums[i],
                      slotsCovered(allocTime[1], allocTime[2]))
    THEN "Slot conflict"
    ELSE ""

\* the validation of handleAllocateConfirm: the title of the toast it returns
\* with (toasts are not kept in the state), or "" when every test passes
manualRefusal(sys, allocs, target, nums, allocTime) ==
    IF Len(nums) = 0 THEN "Enter system numbers"
    ELSE IF ~WellFormed(allocTime) THEN "Invalid slot"
    ELSE IF \E i \in DOMAIN nums : \A k \in DOMAIN sys : sys[k].systemNumber # nums[i]
    THEN "Invalid systems"
    ELSE IF \E i \in DOMAIN nums :
               \E k \in DOMAIN sys : /\ sys[k].systemNumber = nums[i]
                                      /\ sys[k].status = "maintenance"
    THEN "Maintenance systems selected"
    ELSE IF \E i \in DOMAIN nums :
               Booked(allocs, target.date, nums[i],
                      slotsCovered(allocTime[1], allocTime[2]))
    THEN "Slot conflict"
    ELSE ""

\* the texts entered in the dialog: up to two numeric tokens in ascending
\* order, and a time range or a text that is none
SystemTexts ==
    {<<>>} \cup {<<a>> : a \in Entered \cup {0}}
           \cup {x \in (Entered \cup {0}) \X (Entered \cup {0}) : x[1] < x[2]}

TimeTexts == Windows \cup {<<>>}

\* a batch commits at a server time of its own; the model follows the store
\* up to MaxClock commits
handleAllocateConfirm(allocSystemText, allocTime) ==
    /\ dashboard.allocTarget # NoReq
    /\ LET nums    == parseSystems(allocSystemText)
           target  == dashboard.allocTarget
           refusal == manualRefusal(dashboard.systems, dashboard.allocations,
                                    target, nums, allocTime)
           w       == writeAllocations(dashboard.systems, target, nums,
                                       allocTime[1], allocTime[2])
       IN IF refusal # ""
          THEN UNCHANGED <<systems, requests, allocations, now, dashboard>>
          ELSE /\ now < MaxClock
               /\ now' = now + 1
               /\ systems' = w.systems
               /\ allocations' = w.allocations
               /\ requests' = w.requests
               /\ dashboard' = [dashboard EXCEPT
                                  !.allocTarget = NoReq,
                                  !.lastWrite = [by |-> "manual", requestId |-> target.id,
                                                 systemNumbers |-> nums,
                                                 slotText |-> allocTime]]
    /\ UNCHANGED <<pc, arg, req, plan, result>>

\* handleAiAllocate(req) up to `await agentAllocate(sysMeta, reqMeta)`; what
\* follows the await runs with the systems and allocations of this render
handleAiAllocate(r) ==
    /\ ~dashboard.ai.active
    /\ r \in Range(dashboard.pendingRequests)
    /\ LET free == freeSystemsForRange(dashboard.systems, dashboard.allocations,
                                       r.date, r.inTime, r.outTime, TRUE)
       IN IF Len(free) < need(r)
          THEN dashboard' = [dashboard EXCEPT
                               !.unavailability = @ \cup {r.id}]
          ELSE dashboard' = [dashboard EXCEPT
                               !.ai = [active |-> TRUE, req |-> r, need |-> need(r),
                                       free |-> free, systems |-> dashboard.systems,
                                       allocations |-> dashboard.allocations]]
    /\ UNCHANGED <<systems, requests, allocations, now, pc, arg, req, plan, result>>

\* what agentAllocate answers: an array of up to MaxDemand numbers; an answer
\* that is no array, or an exception, is followed like an array too short
Answers ==
    UNION {[1 .. k -> Entered] : k \in 0 .. MaxDemand}

\* `chosen.filter((n) => !span.some((i) => allocations[rangeKey(req.date, n, i)]))`
raceGuard(allocs, r, chosen) ==
    SelectSeq(chosen, LAMBDA n : ~Booked(allocs, r.date, n, slotsCovered(r.inTime, r.outTime)))

\* handleAiAllocate from the answer of agentAllocate on.  The comparator of
\* the fallback sort is not an ordering, so the fallback takes any `need` of
\* the free systems.
agentAllocateAnswers(answer) ==
    /\ dashboard.ai.active
    /\ LET ai     == dashboard.ai
           viaAi  == IF Len(answer) >= ai.need THEN SliceFirst(answer, ai.need) ELSE <<>>
       IN \E S \in SUBSET Range(ai.free) :
            /\ Cardinality(S) = IF Len(viaAi) < ai.need THEN ai.need ELSE 0
            /\ LET chosen == IF Len(viaAi) < ai.need THEN SortAsc(S) ELSE viaAi
                   ok     == raceGuard(ai.allocations, ai.req, chosen)
                   w      == writeAllocations(ai.systems, ai.req, SliceFirst(ok, ai.need),
                                              ai.req.inTime, ai.req.outTime)
               IN IF Len(ok) < ai.need
                  THEN /\ dashboard' = [dashboard EXCEPT !.ai = NoAi]
                       /\ UNCHANGED <<systems, requests, allocations, now>>
                  ELSE IF w.threw
                  THEN /\ dashboard' = [dashboard EXCEPT
                                          !.ai = NoAi,
                                          !.lastWrite = [by |-> "ai", requestId |-> ai.req.id,
                                                         systemNumbers |->
                                                             SliceFirst(ok, ai.need),
                                                         slotText |->
                                                             <<ai.req.inTime, ai.req.outTime>>]]
                       /\ UNCHANGED <<systems, requests, allocations, now>>
                  ELSE /\ now < MaxClock
                       /\ now' = now + 1
                       /\ systems' = w.systems
                       /\ allocations' = w.allocations
                       /\ requests' = w.requests
                       /\ dashboard' = [dashboard EXCEPT
                                          !.ai = NoAi,
                                          !.lastWrite = [by |-> "ai", requestId |-> ai.req.id,
                                                         systemNumbers |->
                                                             SliceFirst(ok, ai.need),
                                                         slotText |->
                                                             <<ai.req.inTime, ai.req.outTime>>]]
    /\ UNCHANGED <<pc, arg, req, plan, result>>

\* registries whose first MaxDemand systems are available, but for at most
\* one that is reserved or in maintenance, and whose other systems are in
\* maintenance
DashRegistries ==
    {[n \in SysNums |-> SystemDoc(n, IF n > MaxDemand THEN "maintenance"
                                      ELSE IF n = m THEN st ELSE "available")] :
        m \in 0 .. MaxDemand, st \in {"reserved", "maintenance"}}

\* request 1 is pending, with any window, date and demand; request 2 was
\* approved before the component mounted
DashRequests ==
    {[i \in ReqIds |->
        IF i = 1 THEN RequestDoc(1, d, w, n)
        ELSE [RequestDoc(i, FirstDate, WindowSeq[1], 1) EXCEPT !.status = "approved"]] :
        w \in Windows, n \in 1 .. MaxDemand, d \in Dates}

\* the allocations collection holds nothing, or system 1 in the slots of the
\* first window on FirstDate for request 2
DashLedgers ==
    {{}, {AllocationRec(RequestDoc(2, FirstDate, WindowSeq[1], 1), 1, i,
                        WindowSeq[1][1], WindowSeq[1][2]) :
            i \in slotsCovered(WindowSeq[1][1], WindowSeq[1][2])}}

InitDash ==
    /\ systems \in DashRegistries
    /\ requests \in DashRequests
    /\ allocations \in DashLedgers
    /\ now = 0
    /\ pc = [p \in Procs |-> "idle"]
    /\ arg = [p \in Procs |-> 0]
    /\ req = [p \in Procs |-> NoReq]
    /\ plan = [p \in Procs |-> NoPlan]
    /\ result = [p \in Procs |-> NoResult]
    /\ dashboard = NoDashboard

NextDash ==
    \/ SnapSystems
    \/ SnapRequests
    \/ SnapAllocations
    \/ \E r \in Range(dashboard.pendingRequests) : openAllocate(r)
    \/ \E allocSystemText \in SystemTexts, allocTime \in TimeTexts :
          handleAllocateConfirm(allocSystemText, allocTime)
    \/ \E r \in Range(dashboard.pendingRequests) : handleAiAllocate(r)
    \/ \E answer \in Answers : agentAllocateAnswers(answer)

SpecDash == InitDash /\ [][NextDash]_vars

\* the manual allocation dialog alone, which reads the date of its target
\* only: request 1 asks for one system in the window that overlaps every
\* other
InitManual ==
    /\ InitDash
    /\ \E d \in Dates : requests[1] = RequestDoc(1, d, WindowSeq[2], 1)

NextManual ==
    \/ SnapSystems
    \/ SnapRequests
    \/ SnapAllocations
    \/ \E r \in Range(dashboard.pendingRequests) : openAllocate(r)
    \/ \E allocSystemText \in SystemTexts, allocTime \in TimeTexts :
          handleAllocateConfirm(allocSystemText, allocTime)

SpecManual == InitManual /\ [][NextManual]_vars

\* the dashboard over a registry of ALL_SYSTEMS systems, or one fewer, all
\* in maintenance but for some of the first MaxDemand, which the operator
\* toggles; each request is pending or was approved before
AutoRegistries ==
    {[n \in 1 .. c |-> SystemDoc(n, IF n \in DOMAIN st THEN st[n] ELSE "maintenance")] :
        c \in {ALL_SYSTEMS - 1, ALL_SYSTEMS},
        st \in [1 .. MaxDemand -> {"available", "maintenance"}]}

AutoRequests ==
    {[i \in ReqIds |-> [RequestDoc(i, FirstDate, WindowSeq[i], 1) EXCEPT !.status = st[i]]] :
        st \in [ReqIds -> {"pending", "approved"}]}

InitAuto ==
    /\ systems \in AutoRegistries
    /\ requests \in AutoRequests
    /\ allocations = {}
    /\ now = 0
    /\ pc = [p \in Procs |-> "idle"]
    /\ arg = [p \in Procs |-> 0]
    /\ req = [p \in Procs |-> NoReq]
    /\ plan = [p \in Procs |-> NoPlan]
    /\ result = [p \in Procs |-> NoResult]
    /\ dashboard = NoDashboard

NextAuto ==
    \/ SnapSystems
    \/ SnapRequests
    \/ \E n \in 1 .. MaxDemand, toMaintenance \in BOOLEAN :
          handleMaintenanceToggle(n, toMaintenance)
    \/ \E n \in 1 .. MaxDemand, toReserved \in BOOLEAN :
          handleReserveToggle(n, toReserved)

SpecAuto == InitAuto /\ [][NextAuto]_vars

(***************************************************************************)
(* Properties.                                                             *)
(***************************************************************************)
\* p's invocation has just committed: its transaction ran and it returned
Committed(p) == pc[p] \in {"txDirect", "txReshuffle"} /\ pc'[p] = "returned"

\* the stored allocations of other requests that overlap r's window on r's date
OverlappingOthers(store, r) ==
    {a \in store : a.date = r.date /\ a.requestId # r.id /\ DocsOverlap(a, r)}

\* C1: starting from a ledger in which same-date allocations with overlapping
\* windows hold disjoint systems, attempts made one at a time keep it so, the
\* inserted allocation and the relocated ones included.
C1_LedgerDisjointKept == LedgerDisjoint(allocations)

\* C2: an attempt that commits a direct plan when one of its chosen systems
\* is, in the store at commit time, held by an overlapping same-date
\* allocation of another request, fails with commit-conflict and writes nothing.
C2_StaleDirectCommitConflicts ==
    [][\A p \in Procs :
         (/\ pc[p] = "txDirect"
          /\ pc'[p] # "txDirect"
          /\ \E a \in OverlappingOthers(allocations, req[p]) :
                 Range(a.systems) \cap Range(plan[p].chosen) # {})
         => (/\ result'[p].reason = "commit_conflict"
             /\ allocations' = allocations
             /\ requests' = requests)]_vars

\* a relocation of p's plan whose allocation is gone from the store, or no
\* longer holds the relocation's source system
StaleMove(p) ==
    \E i \in DOMAIN plan[p].reshuffles :
        LET r == plan[p].reshuffles[i]
        IN \A a \in allocations :
              a.id = r.moveAllocationId => r.from \notin Range(a.systems)

\* C3: a reshuffle commit with a stale relocation aborts: nothing is written,
\* the request stays pending and the outcome is commit-conflict.
C3_StaleMoveAborts ==
    [][\A p \in Procs :
         (pc[p] = "txReshuffle" /\ pc'[p] # "txReshuffle" /\ StaleMove(p))
         => (/\ result'[p].reason = "commit_conflict"
             /\ allocations' = allocations
             /\ requests' = requests)]_vars

\* C4: whenever the engine writes a request's status (accepted by a commit,
\* rejected by the rejection path), the stored status is pending.
C4_StatusWrittenOnlyWhenPending ==
    [][\A p \in Procs :
         (pc[p] \in {"txDirect", "txReshuffle", "reject"} /\ pc'[p] = "returned")
         => requests[req[p].id].status = "pending"]_vars

\* the system numbers stored with status maintenance
Maintenance == {systems[i].systemNumber : i \in {j \in DOMAIN systems : systems[j].status = "maintenance"}}

\* the targets of a relocation list
Targets(rs) == {rs[i].to : i \in DOMAIN rs}

\* C5: in every successful outcome no chosen system and no relocation target
\* is stored with status maintenance.
C5_NoMaintenanceInOutcome ==
    \A p \in Procs :
        result[p].ok =>
            (Range(result[p].chosen) \cup Targets(result[p].reshuffles)) \cap Maintenance = {}

\* the k highest system numbers of class ty in the registry
TopOfClass(ty, k) ==
    LET class == {systems[i].systemNumber : i \in {j \in DOMAIN systems : systems[j].type = ty}}
    IN {n \in class : Cardinality({m \in class : m > n}) < k}

\* C6: the reserved set of a class is its K highest system numbers (2 for
\* i7, 3 for i9), and no successful outcome has a chosen system or a
\* relocation target in the reserved set of its class.
C6_ReservedNeverUsed ==
    /\ reservedI7(systems) = TopOfClass("i7", 2)
    /\ reservedI9(systems) = TopOfClass("i9", 3)
    /\ \A p \in Procs :
          result[p].ok =>
              (Range(result[p].chosen) \cup Targets(result[p].reshuffles))
                  \cap (TopOfClass("i7", 2) \cup TopOfClass("i9", 3)) = {}

\* C6 witness: a minimal-reshuffle success with a relocation, while the
\* lowest reserved system is stored as available and held by no allocation
C6_Witness ==
    \E p \in Procs :
        /\ result[p].ok
        /\ result[p].mode = "minimal_reshuffle"
        /\ result[p].reshuffles # <<>>
        /\ \E i \in DOMAIN systems :
              /\ systems[i].systemNumber \in TopOfClass("i9", 3)
              /\ systems[i].status = "available"
              /\ \A a \in allocations : systems[i].systemNumber \notin Range(a.systems)

\* C7: every returned outcome is a direct success with no relocation, a
\* minimal-reshuffle success with at least one relocation, or a failure with
\* one of the four reasons.
C7_OutcomeShapes ==
    \A p \in Procs :
        pc[p] = "returned" =>
            \/ result[p].ok /\ result[p].mode = "direct" /\ result[p].reshuffles = <<>>
            \/ result[p].ok /\ result[p].mode = "minimal_reshuffle"
                  /\ result[p].reshuffles # <<>>
            \/ ~result[p].ok /\ result[p].reason \in
                  {"request_not_found", "not_pending", "no_feasible_plan", "commit_conflict"}

\* p's commit is wholly visible in the next state: the inserted allocation,
\* the accepted status, and every returned relocation applied
AllVisible(p) ==
    /\ \E a \in allocations' :
          /\ a.id = plan'[p].planId
          /\ a.requestId = req[p].id
          /\ a.systems = result'[p].chosen
    /\ requests'[req[p].id].status = "accepted"
    /\ \A i \in DOMAIN result'[p].reshuffles :
          LET r == result'[p].reshuffles[i]
          IN \E a \in allocations' :
                /\ a.id = r.moveAllocationId
                /\ r.to \in Range(a.systems)
                /\ r.from \notin Range(a.systems)

\* C8: a successful attempt's relocation rewrites, its inserted allocation
\* and the accepted status appear in one step, all of them; a step that is no
\* successful commit changes no allocation and accepts no request.
C8_CommitAllOrNothing ==
    [][/\ \A p \in Procs : Committed(p) => AllVisible(p)
       /\ (\A p \in Procs : ~Committed(p))
            => /\ allocations' = allocations
               /\ \A r \in DOMAIN requests :
                     requests'[r].status = "accepted" => requests[r].status = "accepted"]_vars

\* C8 witness: a minimal-reshuffle commit has happened: the relocated
\* allocation is on its target and the inserted allocation is stored
C8_Witness ==
    \E p \in Procs :
        /\ pc[p] = "returned"
        /\ result[p].mode = "minimal_reshuffle"
        /\ result[p].reshuffles # <<>>
        /\ \E a \in allocations : a.id = plan[p].planId /\ a.systems = result[p].chosen
        /\ \E a \in allocations :
              /\ a.id = result[p].reshuffles[1].moveAllocationId
              /\ result[p].reshuffles[1].to \in Range(a.systems)

\* the systems that are directly free for request r in the store: outside
\* the reserved sets, not in maintenance, held by no overlapping allocation
DirectlyFree(store, r) ==
    {n \in SysNums :
        /\ n \notin TopOfClass("i7", 2) \cup TopOfClass("i9", 3)
        /\ n \notin Maintenance
        /\ \A a \in store :
              (a.date = r.date /\ DocsOverlap(a, r)) => n \notin Range(a.systems)}

\* C9: the rejection path is taken with fewer directly-free systems than the
\* demand and fewer than the demand chosen by the reshuffle pass; it returns
\* no_feasible_plan, sets the request to rejected, inserts no allocation and
\* leaves every stored allocation as it was.
C9_RejectWritesOnlyStatus ==
    [][\A p \in Procs :
         (pc[p] = "reject" /\ pc'[p] # "reject")
         => (/\ Cardinality(DirectlyFree(allocations, req[p])) < need(req[p])
             /\ Len(plan[p].chosen) < need(req[p])
             /\ result'[p] = Failure("no_feasible_plan")
             /\ requests' = [requests EXCEPT ![req[p].id].status = "rejected"]
             /\ allocations' = allocations)]_vars

\* C9 witness: a rejected attempt whose failed pass had relocated an
\* allocation in memory, and the store still holds it on its source system
C9_Witness ==
    \E p \in Procs :
        /\ pc[p] = "returned"
        /\ result[p].reason = "no_feasible_plan"
        /\ requests[req[p].id].status = "rejected"
        /\ plan[p].reshuffles # <<>>
        /\ \A i \in DOMAIN plan[p].reshuffles :
              \E a \in allocations :
                 /\ a.id = plan[p].reshuffles[i].moveAllocationId
                 /\ plan[p].reshuffles[i].from \in Range(a.systems)

\* C10: an invocation on a stored request that is not pending returns
\* not_pending and writes nothing.
C10_NotPendingWritesNothing ==
    [][\A p \in Procs :
         (/\ pc[p] = "idle" /\ pc'[p] # "idle"
          /\ arg'[p] \in DOMAIN requests
          /\ requests[arg'[p]].status # "pending")
         => (/\ pc'[p] = "returned"
             /\ result'[p] = Failure("not_pending")
             /\ requests' = requests
             /\ allocations' = allocations
             /\ systems' = systems)]_vars

\* C10 witness: a second invocation on a request that an earlier one accepted
C10_Witness ==
    \E p \in Procs :
        /\ pc[p] = "returned"
        /\ result[p].reason = "not_pending"
        /\ requests[arg[p]].status = "accepted"
        /\ \E a \in allocations : a.requestId = arg[p]

\* C11: an invocation with an id that resolves to no stored request returns
\* request_not_found and writes nothing: no request is created or changed, no
\* allocation is inserted and none is rewritten.
C11_NotFoundWritesNothing ==
    [][\A p \in Procs :
         (pc[p] = "idle" /\ pc'[p] # "idle" /\ arg'[p] \notin DOMAIN requests)
         => (/\ pc'[p] = "returned"
             /\ result'[p] = Failure("request_not_found")
             /\ requests' = requests
             /\ allocations' = allocations
             /\ systems' = systems)]_vars

\* C11 witness: an invocation with the missing id has returned request_not_found
\* while a pending request and an allocation are stored
C11_Witness ==
    \E p \in Procs :
        /\ pc[p] = "returned"
        /\ arg[p] = MissingId
        /\ result[p].reason = "request_not_found"
        /\ \E i \in DOMAIN requests : requests[i].status = "pending"
        /\ allocations # {}

\* the k lowest numbers of S, ascending
Lowest(S, k) == SubSeq(SortAsc(S), 1, k)

\* C12: for attempts made one at a time, when the directly-free systems of
\* the request are at least its demand, planning takes the direct path with
\* the demand lowest-numbered directly-free systems and no relocation, and the
\* commit returns success in direct mode with that chosen set and an empty
\* relocation list and leaves every stored allocation as it was.
C12_DirectWhenEnoughFree ==
    [][\A p \in Procs :
         LET free == DirectlyFree(allocations, req[p])
         IN /\ (/\ pc[p] = "getAllocations" /\ pc'[p] # "getAllocations"
                /\ Cardinality(free) >= need(req[p]))
               => (/\ pc'[p] = "txDirect"
                   /\ plan'[p].chosen = Lowest(free, need(req[p]))
                   /\ plan'[p].reshuffles = <<>>)
            /\ (/\ pc[p] = "txDirect" /\ pc'[p] # "txDirect"
                /\ Cardinality(free) >= need(req[p]))
               => (/\ result'[p] = Success("direct", Lowest(free, need(req[p])), <<>>)
                   /\ allocations \subseteq allocations')]_vars

\* C12 witness: a direct success that passed over a lower-numbered system
\* outside the reserved sets (busy in the window, or in maintenance), with the
\* allocations stored before the attempt still in the ledger
C12_Witness ==
    \E p \in Procs :
        /\ pc[p] = "returned"
        /\ result[p].ok
        /\ result[p].mode = "direct"
        /\ Len(result[p].chosen) = MaxDemand
        /\ \E n \in Range(nonReservedAll(systems)) :
              n < result[p].chosen[1] /\ n \notin Range(result[p].chosen)
        /\ \E a \in allocations : a.requestId = 0 /\ DocsOverlap(a, req[p])
        /\ \E a \in allocations : a.requestId = req[p].id /\ a.systems = result[p].chosen

\* the directly-free systems of r that no allocation of r's date holds at all
Unused(store, r) ==
    {n \in DirectlyFree(store, r) :
        \A a \in store : a.date = r.date => n \notin Range(a.systems)}

\* scenario B: demand 2, exactly one directly-free system, and a stored
\* allocation that holds a busy system outside the reserved sets while an
\* unused system exists to move it to
ScenarioB(store, r) ==
    /\ need(r) = 2
    /\ Cardinality(DirectlyFree(store, r)) = 1
    /\ \E a \in store :
          /\ a.date = r.date
          /\ DocsOverlap(a, r)
          /\ Range(a.systems) \cap Range(nonReservedAll(systems)) # {}
          /\ Unused(store, r) # {}

\* C13: in scenario B planning takes the reshuffle path with one relocation
\* and two chosen systems, the relocation's target being an unused system
\* outside the request's busy set, and the commit returns success in
\* minimal-reshuffle mode with that relocation applied.
C13_ScenarioBOneRelocation ==
    [][\A p \in Procs :
         /\ (/\ pc[p] = "getAllocations" /\ pc'[p] # "getAllocations"
             /\ ScenarioB(allocations, req[p]))
            => (/\ pc'[p] = "txReshuffle"
                /\ Len(plan'[p].reshuffles) = 1
                /\ Len(plan'[p].chosen) = 2
                /\ plan'[p].reshuffles[1].to \in Unused(allocations, req[p]))
         /\ (/\ pc[p] = "txReshuffle" /\ pc'[p] # "txReshuffle"
             /\ ScenarioB(allocations, req[p]))
            => (/\ result'[p].ok
                /\ result'[p].mode = "minimal_reshuffle"
                /\ Len(result'[p].reshuffles) = 1
                /\ Len(result'[p].chosen) = 2
                /\ \E a \in allocations' :
                      /\ a.id = result'[p].reshuffles[1].moveAllocationId
                      /\ result'[p].reshuffles[1].to \in Range(a.systems))]_vars

\* C15: the id under which a commit inserts its allocation is the id of no
\* allocation already stored, for any interleaving of attempts and any clock
\* values, so that the insert overwrites nothing.
C15_InsertedIdIsFresh ==
    [][\A p \in Procs :
         Committed(p) => \A a \in allocations : a.id # plan'[p].planId]_vars

\* the ids of the allocations a relocation list names
MovedIds(rs) == {rs[i].moveAllocationId : i \in DOMAIN rs}

\* C16: a commit with relocations, attempts made one at a time, leaves the
\* date, start, end, owning request, requester and creator tag of every stored
\* allocation as they were, and leaves every allocation its relocation list
\* does not name wholly as it was, its systems included.
C16_RelocationFrame ==
    [][\A p \in Procs :
         (pc[p] = "txReshuffle" /\ pc'[p] = "returned")
         => \A a \in allocations :
               \E b \in allocations' :
                  /\ b.id = a.id
                  /\ b.date = a.date
                  /\ b.inTime = a.inTime
                  /\ b.outTime = a.outTime
                  /\ b.requestId = a.requestId
                  /\ b.loginId = a.loginId
                  /\ b.createdBy = a.createdBy
                  /\ (a.id \notin MovedIds(plan[p].reshuffles) => b = a)]_vars

\* C16 witness: a committed relocation has moved an allocation that an
\* earlier attempt inserted, while an allocation the list does not name is
\* stored next to it
C16_Witness ==
    \E p \in Procs :
        /\ pc[p] = "returned"
        /\ result[p].mode = "minimal_reshuffle"
        /\ \E a, b \in allocations :
              /\ a.id \in MovedIds(result[p].reshuffles)
              /\ a.createdBy = "agent"
              /\ a.requestId # req[p].id
              /\ result[p].reshuffles[1].to \in Range(a.systems)
              /\ b.id \notin MovedIds(result[p].reshuffles)
              /\ b.requestId = 0

\* the ids of the stored allocations
Ids(store) == {a.id : a \in store}

\* C17: no step of any attempt removes an allocation id from the ledger: the
\* set of stored ids only grows.
C17_NeverDeletes == [][Ids(allocations) \subseteq Ids(allocations')]_vars

\* C17 witness: after a commit with a relocation and a commit of another
\* request, the relocated allocation and both inserted ones are stored
C17_Witness ==
    \E p \in Procs :
        /\ pc[p] = "returned"
        /\ result[p].mode = "minimal_reshuffle"
        /\ result[p].reshuffles # <<>>
        /\ MovedIds(result[p].reshuffles) \subseteq Ids(allocations)
        /\ \A r \in ReqIds : \E a \in allocations : a.requestId = r

\* store with the first k relocations of rs applied, each to the allocation it
\* names
RECURSIVE Relocated(_, _, _)
Relocated(store, rs, k) ==
    IF k = 0 THEN store
    ELSE LET prev == Relocated(store, rs, k - 1)
         IN {IF a.id = rs[k].moveAllocationId
             THEN [a EXCEPT !.systems = MapReplace(@, rs[k].from, rs[k].to)]
             ELSE a : a \in prev}

\* the allocations of store, other than the one with id, that are on its date
\* and overlap its window
OthersOverlapping(store, id) ==
    {b \in store : /\ b.id # id
                   /\ \E a \in store : a.id = id /\ a.date = b.date /\ DocsOverlap(a, b)}

\* C18: in every plan, the target of each relocation is held, in the snapshot
\* with the plan's earlier relocations applied, by no other allocation that
\* overlaps the relocated allocation's own window; and the ledger with all the
\* plan's relocations applied has no two overlapping allocations sharing a
\* system that they did not share before.
C18_TargetFreeForOwnWindow ==
    [][\A p \in Procs :
         (pc[p] = "getAllocations" /\ pc'[p] # "getAllocations")
         => LET rs    == plan'[p].reshuffles
                after == Relocated(allocations, rs, Len(rs))
            IN /\ \A k \in DOMAIN rs :
                     \A b \in OthersOverlapping(Relocated(allocations, rs, k - 1),
                                                rs[k].moveAllocationId) :
                        rs[k].to \notin Range(b.systems)
               /\ \A a, b \in allocations :
                     (a.id # b.id /\ a.date = b.date /\ DocsOverlap(a, b))
                     => \A a2, b2 \in after :
                           (a2.id = a.id /\ b2.id = b.id)
                           => (Range(a2.systems) \cap Range(b2.systems))
                                 \subseteq (Range(a.systems) \cap Range(b.systems))]_vars

\* C18 witness: a plan with two relocations of two allocations that overlap
\* each other, the second one's target being the first one's source
C18_Witness ==
    \E p \in Procs :
        /\ Len(plan[p].reshuffles) = 2
        /\ plan[p].reshuffles[2].to = plan[p].reshuffles[1].from
        /\ \E a, b \in allocations :
              /\ a.id = plan[p].reshuffles[1].moveAllocationId
              /\ b.id = plan[p].reshuffles[2].moveAllocationId
              /\ a.id # b.id
              /\ DocsOverlap(a, b)

\* the systems outside the reserved set of their class
NonReserved == SysNums \ (TopOfClass("i7", 2) \cup TopOfClass("i9", 3))

\* the own busy set of the allocation with id: the systems of every other
\* allocation of its date whose window overlaps its window
OwnBusy(store, id) == UNION {Range(b.systems) : b \in OthersOverlapping(store, id)}

\* C19: in every plan, the target of each relocation is the lowest-numbered
\* system outside the reserved sets, other than the relocation's source, that
\* is absent from the relocated allocation's own busy set, taken at that
\* allocation's start and end in the snapshot as the plan's earlier
\* relocations left it.
C19_TargetIsLowestCandidate ==
    [][\A p \in Procs :
         (pc[p] = "getAllocations" /\ pc'[p] # "getAllocations")
         => LET rs == plan'[p].reshuffles
            IN \A k \in DOMAIN rs :
                  LET own  == OwnBusy(Relocated(allocations, rs, k - 1),
                                      rs[k].moveAllocationId)
                      cand == {n \in NonReserved : n # rs[k].from /\ n \notin own}
                  IN /\ rs[k].to \in cand
                     /\ \A n \in cand : rs[k].to <= n]_vars

\* C19 witness: a plan holds a relocation whose target is not the lowest
\* system outside the reserved sets: a lower one, not the source, is in the
\* relocated allocation's own busy set
C19_Witness ==
    \E p \in Procs :
        \E k \in DOMAIN plan[p].reshuffles :
            \E n \in NonReserved :
                /\ n < plan[p].reshuffles[k].to
                /\ n # plan[p].reshuffles[k].from
                /\ pc[p] \in {"txReshuffle", "reject"}
                /\ n \in OwnBusy(Relocated(allocations, plan[p].reshuffles, k - 1),
                                 plan[p].reshuffles[k].moveAllocationId)

\* C20: in every plan, no relocation moves an allocation off the system an
\* earlier relocation of the same plan moved it onto.
C20_NoCascade ==
    [][\A p \in Procs :
         (pc[p] = "getAllocations" /\ pc'[p] # "getAllocations")
         => LET rs == plan'[p].reshuffles
            IN \A j, k \in DOMAIN rs :
                  (j < k /\ rs[j].moveAllocationId = rs[k].moveAllocationId)
                  => rs[k].from # rs[j].to]_vars

\* the systems a relocation may use: outside the reserved sets, not in
\* maintenance
Usable == NonReserved \ Maintenance

\* the resource sets allocation a can be given by relocations: as many
\* distinct systems as it holds, each one kept or replaced by a usable one
Placements(a) ==
    {s \in [DOMAIN a.systems -> Range(a.systems) \cup Usable] :
        /\ \A i \in DOMAIN s : s[i] = a.systems[i] \/ s[i] \in Usable
        /\ Cardinality(Range(s)) = Cardinality(Range(a.systems))}

\* some relocation of the allocations of todo, next to the allocations of
\* done, keeps the ledger invariant and leaves the demand of r directly free
RECURSIVE Satisfiable(_, _, _)
Satisfiable(todo, done, r) ==
    IF todo = {}
    THEN LedgerDisjoint(done) /\ Cardinality(DirectlyFree(done, r)) >= need(r)
    ELSE LET a == CHOOSE x \in todo : TRUE
         IN \E s \in Placements(a) :
               Satisfiable(todo \ {a}, done \cup {[a EXCEPT !.systems = s]}, r)

\* the request of p can be served without conflict by relocating stored
\* allocations of its date, in a ledger that satisfies the ledger invariant
Feasible(p) ==
    /\ LedgerDisjoint(allocations)
    /\ Satisfiable({a \in allocations : a.date = req[p].date},
                   {a \in allocations : a.date # req[p].date}, req[p])

\* no system outside the reserved sets can be chosen by the pass for r: each
\* is busy in r's window, and every allocation that makes it busy has all the
\* other systems outside the reserved sets in its own busy set
Stuck(store, r) ==
    \A n \in NonReserved :
        /\ \E a \in store : a.date = r.date /\ DocsOverlap(a, r) /\ n \in Range(a.systems)
        /\ \A a \in store :
              (a.date = r.date /\ DocsOverlap(a, r) /\ n \in Range(a.systems))
              => NonReserved \ {n} \subseteq OwnBusy(store, a.id)

\* C21: when no system outside the reserved sets is free or has an allocation
\* with a one-hop target, the single ascending pass chooses nothing and the
\* attempt is rejected with no_feasible_plan, whether or not other relocations
\* would serve the request (the witness is a snapshot where they would).
C21_StuckPassRejects ==
    [][\A p \in Procs :
         /\ (/\ pc[p] = "getAllocations" /\ pc'[p] # "getAllocations"
             /\ Stuck(allocations, req[p]))
            => (pc'[p] = "reject" /\ plan'[p].chosen = <<>>)
         /\ (/\ pc[p] = "reject" /\ pc'[p] # "reject"
             /\ Stuck(allocations, req[p]))
            => (/\ result'[p] = Failure("no_feasible_plan")
                /\ requests'[req[p].id].status = "rejected")]_vars

\* C21 witness: a rejected attempt on a ledger that satisfies the ledger
\* invariant and in which relocating stored allocations would leave the demand
\* directly free
C21_Witness ==
    \E p \in Procs :
        /\ pc[p] = "returned"
        /\ result[p] = Failure("no_feasible_plan")
        /\ Len(plan[p].chosen) < need(req[p])
        /\ Stuck(allocations, req[p])
        /\ Feasible(p)

\* minutes since midnight of a time of day
Minutes(t) == 60 * t[1] + t[2]

\* windows [in, out) of a and r share a moment
ShareMoment(a, r) ==
    Minutes(a.inTime) < Minutes(r.outTime) /\ Minutes(r.inTime) < Minutes(a.outTime)

\* a's window ends when r's starts, or starts when r's ends
Touches(a, r) == a.outTime = r.inTime \/ a.inTime = r.outTime

\* the systems outside the reserved sets, not in maintenance, that no
\* allocation of r's date holds in a window sharing a moment with r's
FreeFor(store, r) ==
    {n \in NonReserved \ Maintenance :
        \A a \in store : (a.date = r.date /\ ShareMoment(a, r)) => n \notin Range(a.systems)}

\* C22: the directly-free list an attempt computes from the store is the
\* ascending list of the systems outside the reserved sets, not in
\* maintenance, held by no same-date allocation whose window overlaps the
\* request's under the half-open test; an allocation whose window only touches
\* the request's makes no system busy.
C22_DirectlyFreeList ==
    \A p \in Procs :
        pc[p] = "getAllocations" =>
            LET snapshot == AllocationsOn(allocations, req[p].date)
                b        == busy(snapshot, toMinutes(req[p].inTime), toMinutes(req[p].outTime))
            IN /\ nonReservedFree(systems, b) = SortAsc(FreeFor(allocations, req[p]))
               /\ \A a \in allocations :
                     (a.date = req[p].date /\ Touches(a, req[p]))
                     => \A n \in Range(a.systems) :
                           n \in b => \E c \in allocations :
                                         /\ c.date = req[p].date
                                         /\ ~Touches(c, req[p])
                                         /\ n \in Range(c.systems)

\* C22 witness: an attempt about to plan; of the systems outside the reserved
\* sets one is held in a window that touches the request's and is in the
\* list, one is held in an overlapping window and one is in maintenance
C22_Witness ==
    \E p \in Procs :
        /\ pc[p] = "getAllocations"
        /\ \E a, c \in allocations :
              /\ a.date = req[p].date /\ Touches(a, req[p])
              /\ Range(a.systems) \subseteq FreeFor(allocations, req[p])
              /\ c.date = req[p].date /\ ShareMoment(c, req[p])
              /\ Range(c.systems) \cap NonReserved # {}
        /\ Maintenance # {}
        /\ FreeFor(allocations, req[p]) # {}

\* s lists pairwise distinct numbers in ascending order
Ascending(s) == \A i, j \in DOMAIN s : i < j => s[i] < s[j]

\* C23: for attempts made one at a time, the chosen set of every successful
\* outcome is exactly demand distinct system numbers in ascending order and
\* is the resource set of the inserted allocation; the pass never holds more
\* than demand chosen systems.
C23_ChosenIsDemandAscending ==
    \A p \in Procs :
        /\ Len(plan[p].chosen) <= need(req[p])
        /\ (pc[p] = "returned" /\ result[p].ok)
           => (/\ Len(result[p].chosen) = need(req[p])
               /\ Ascending(result[p].chosen)
               /\ \E a \in allocations :
                     /\ a.id = plan[p].planId
                     /\ a.requestId = req[p].id
                     /\ a.systems = result[p].chosen)

\* C23 witness: a minimal-reshuffle success of MaxDemand systems that stopped
\* before a higher system outside the reserved sets which no allocation holds
C23_Witness ==
    \E p \in Procs :
        /\ pc[p] = "returned"
        /\ result[p].ok
        /\ result[p].mode = "minimal_reshuffle"
        /\ Len(result[p].chosen) = MaxDemand
        /\ \E n \in NonReserved :
              /\ \A i \in DOMAIN result[p].chosen : result[p].chosen[i] < n
              /\ \A a \in allocations : n \notin Range(a.systems)
              /\ n \notin Targets(result[p].reshuffles)

\* the stored allocations of another date than d
OtherDate(store, d) == {a \in store : a.date # d}

\* C24: the plan an attempt makes is the plan made from the store without the
\* allocations of other dates than the request's, and no step of the attempt
\* changes or removes an allocation of another date.
C24_DateScoped ==
    [][\A p \in Procs :
         /\ (pc[p] = "getAllocations" /\ pc'[p] # "getAllocations")
            => LET d  == req[p].date
                   pl == Planning(req[p], systems,
                                  SortById(allocations \ OtherDate(allocations, d)))
               IN /\ plan'[p].chosen = pl.chosen
                  /\ plan'[p].reshuffles = pl.reshuffles
                  /\ pc'[p] = (CASE pl.kind = "direct" -> "txDirect"
                                 [] pl.kind = "minimal_reshuffle" -> "txReshuffle"
                                 [] OTHER -> "reject")
         /\ (pc[p] # "idle" /\ pc'[p] # pc[p])
            => OtherDate(allocations, req[p].date) \subseteq allocations']_vars

\* C24 witness: a request of the second date was given systems that an
\* allocation of the first date holds in an overlapping window, and that
\* allocation is stored as it was
C24_Witness ==
    \E p \in Procs :
        /\ pc[p] = "returned"
        /\ result[p].ok
        /\ req[p].date # FirstDate
        /\ \E a \in allocations :
              /\ a.date = FirstDate
              /\ a.requestId = 0
              /\ DocsOverlap(a, req[p])
              /\ Range(a.systems) \subseteq Range(result[p].chosen)

\* C25: an attempt that has ended has ended by returning an outcome: a
\* success, or a failure with its reason; no attempt ends otherwise.
C25_EndsWithOutcome ==
    \A p \in Procs :
        pc[p] \in {"returned", "threw"}
        => (pc[p] = "returned" /\ (result[p].ok \/ result[p].reason # ""))

\* C26: in a minimal-reshuffle plan no system is both the target of a
\* relocation and chosen for the request, whether it was chosen before the
\* relocation or after it.
C26_TargetsNotChosen ==
    \A p \in Procs :
        pc[p] = "txReshuffle"
        => Targets(plan[p].reshuffles) \cap Range(plan[p].chosen) = {}

\* the allocations of store, on r's date and overlapping r's window, that
\* hold system n
Holders(store, r, n) ==
    {a \in store : a.date = r.date /\ DocsOverlap(a, r) /\ n \in Range(a.systems)}

\* C27: in a minimal-reshuffle plan, a system that was busy in the snapshot
\* is chosen only if, with the plan's relocations applied, no stored
\* allocation that overlaps the request's window holds it, also when two
\* allocations that do not overlap each other both held it.
C27_ChosenBusyIsVacated ==
    \A p \in Procs :
        pc[p] = "txReshuffle"
        => \A i \in DOMAIN plan[p].chosen :
              LET n == plan[p].chosen[i]
              IN Holders(allocations, req[p], n) # {}
                 => Holders(Relocated(allocations, plan[p].reshuffles,
                                      Len(plan[p].reshuffles)), req[p], n) = {}

\* C28: the target of a planned relocation is no system the relocated
\* allocation already holds, and no stored allocation lists a system twice.
C28_NoDuplicateSystems ==
    /\ \A p \in Procs :
          pc[p] \in {"txReshuffle", "reject"}
          => \A k \in DOMAIN plan[p].reshuffles :
                \A a \in Relocated(allocations, plan[p].reshuffles, k - 1) :
                   a.id = plan[p].reshuffles[k].moveAllocationId
                   => plan[p].reshuffles[k].to \notin Range(a.systems)
    /\ \A a \in allocations : Cardinality(Range(a.systems)) = Len(a.systems)

\* the allocations the engine inserted for request r
OwnedBy(r) == {a \in allocations : a.createdBy = "agent" /\ a.requestId = r}

\* C29: under any interleaving of attempts the ledger holds at most one
\* engine-created allocation per owning request, and none for a request
\* whose status is rejected.
C29_OneAllocationPerRequest ==
    \A r \in DOMAIN requests :
        /\ Cardinality(OwnedBy(r)) <= 1
        /\ requests[r].status = "rejected" => OwnedBy(r) = {}

\* the demand a stored request stands for: its numSystems when that is a
\* positive number, and one otherwise
Demand(r) ==
    IF "numSystems" \in DOMAIN r /\ r.numSystems >= 1 THEN r.numSystems ELSE 1

\* C30: the plan an attempt commits chooses exactly max(1, numSystems)
\* systems, which is one system when the stored numSystems is missing, zero
\* or negative, and every allocation the engine inserted holds that many
\* systems, so never none.
C30_DemandAtLeastOne ==
    /\ \A p \in Procs :
          pc[p] \in {"txDirect", "txReshuffle"}
          => /\ need(req[p]) = Demand(requests[req[p].id])
             /\ Len(plan[p].chosen) = Demand(requests[req[p].id])
    /\ \A a \in allocations :
          a.createdBy = "agent"
          => Len(a.systems) >= 1 /\ Len(a.systems) = Demand(requests[a.requestId])

\* a request with a negative stored demand was accepted through the
\* reshuffle commit and holds one system
C30_Witness ==
    /\ pc[1] = "returned"
    /\ result[1].ok /\ result[1].mode = "minimal_reshuffle"
    /\ "numSystems" \in DOMAIN requests[1] /\ requests[1].numSystems < 0
    /\ \E a \in OwnedBy(1) : Len(a.systems) = 1

\* C31: no step of an engine attempt, whatever the attempt's outcome, changes
\* the registry: the type, number and stored status of every system stay as
\* they were, so no stored status becomes occupied or reserved.
C31_RegistryUnwritten ==
    [][/\ systems' = systems
       /\ \A n \in DOMAIN systems :
             systems'[n].status \in {"occupied", "reserved"}
             => systems[n].status = systems'[n].status]_vars

\* an attempt inserted an allocation over a registry with a system in
\* maintenance
C31_Witness ==
    /\ pc[1] = "returned" /\ result[1].ok
    /\ OwnedBy(req[1].id) # {}
    /\ \E n \in DOMAIN systems : systems[n].status = "maintenance"

\* the status the dashboard's systems snapshot shows for system n, "" when
\* the snapshot has no such system
ShownStatus(n) ==
    IF \E k \in DOMAIN dashboard.systems : dashboard.systems[k].systemNumber = n
    THEN dashboard.systems[CHOOSE k \in DOMAIN dashboard.systems :
                              dashboard.systems[k].systemNumber = n].status
    ELSE ""

\* the step is a commit of handleAllocateConfirm
ManualCommit ==
    /\ dashboard.allocTarget # NoReq
    /\ dashboard'.allocTarget = NoReq

\* C32: handleAllocateConfirm writes, and calls writeAllocations, only with
\* entered system numbers that the systems snapshot knows, that are not in
\* maintenance there, and that have no record in the allocations snapshot
\* for the target's date in a slot the entered time range covers; when one
\* number fails a test the step leaves the three collections as they were.
C32_ManualWritesOnlyChecked ==
    [][/\ ManualCommit
          => LET call == dashboard'.lastWrite
             IN /\ call.by = "manual" /\ call.requestId = dashboard.allocTarget.id
                /\ Len(call.systemNumbers) >= 1
                /\ \A n \in Range(call.systemNumbers) :
                      /\ ShownStatus(n) \in {"available", "occupied", "reserved"}
                      /\ ~\E a \in dashboard.allocations :
                            /\ a.date = dashboard.allocTarget.date
                            /\ a.systemNumber = n
                            /\ a.slotIdx \in slotsCovered(call.slotText[1],
                                                          call.slotText[2])
       /\ (dashboard.allocTarget # NoReq /\ ~dashboard.ai.active /\ ~ManualCommit)
          => (/\ requests' = requests /\ allocations' = allocations
              /\ systems' = systems /\ dashboard'.lastWrite = dashboard.lastWrite)]_vars

\* a manual allocation of two systems went through, one that the snapshot
\* of before the commit shows as reserved and one it shows as available
C32_Witness ==
    /\ dashboard.lastWrite.by = "manual"
    /\ \E n, m \in Range(dashboard.lastWrite.systemNumbers) :
          /\ ShownStatus(n) = "reserved"
          /\ ShownStatus(m) = "available"
          /\ systems[m].status = "reserved"

\* the systems that the dashboard's snapshots show free for r: not in
\* maintenance, not reserved, and without an allocation record on r's date in
\* a slot r's range covers
ShownFree(r) ==
    {n \in {dashboard.systems[k].systemNumber : k \in DOMAIN dashboard.systems} :
        /\ ShownStatus(n) \notin {"maintenance", "reserved"}
        /\ ~\E a \in dashboard.allocations :
              /\ a.date = r.date /\ a.systemNumber = n
              /\ a.slotIdx \in slotsCovered(r.inTime, r.outTime)}

\* the step is handleAiAllocate calling writeAllocations
AiCall ==
    /\ dashboard.ai.active /\ ~dashboard'.ai.active
    /\ dashboard'.lastWrite # dashboard.lastWrite \/ now' # now

\* C33: handleAiAllocate goes on to allocate only when the snapshots show at
\* least as many free systems as the request's demand, a step of it that
\* does not write leaves the collections as they were, and it calls
\* writeAllocations only with systems that have no allocation record, for
\* the request's date in a slot its range covers, in the allocations
\* snapshot the dashboard holds at the call.
C33_AiWritesOnlyUnbooked ==
    [][/\ (~dashboard.ai.active /\ dashboard'.ai.active)
          => Cardinality(ShownFree(dashboard'.ai.req)) >= Demand(dashboard'.ai.req)
       /\ (~dashboard.ai.active /\ ~dashboard'.ai.active /\ ~ManualCommit)
          => requests' = requests /\ allocations' = allocations /\ systems' = systems
       /\ AiCall
          => \A n \in Range(dashboard'.lastWrite.systemNumbers) :
                ~\E a \in dashboard.allocations :
                    /\ a.date = dashboard.ai.req.date /\ a.systemNumber = n
                    /\ a.slotIdx \in slotsCovered(dashboard.ai.req.inTime,
                                                  dashboard.ai.req.outTime)]_vars

\* the systems snapshot shows exactly 33 systems, all in maintenance
AllInMaintenance(sys) ==
    /\ Cardinality(DOMAIN sys) = ALL_SYSTEMS
    /\ \A k \in DOMAIN sys : sys[k].status = "maintenance"

\* C34: a step in which the systems snapshot changes to exactly 33 systems
\* all in maintenance updates every request of the pending list to rejected
\* with the all-systems-under-maintenance reason, and leaves the other
\* requests as they were; no other step changes a request.
C34_AutoRejectOnAllMaintenance ==
    [][IF dashboard'.systems # dashboard.systems /\ AllInMaintenance(dashboard'.systems)
       THEN \A i \in DOMAIN requests :
               IF \E k \in DOMAIN dashboard.pendingRequests :
                     dashboard.pendingRequests[k].id = i
               THEN /\ requests'[i].status = "rejected"
                    /\ requests'[i].rejectionReason = REJECTION_REASON
               ELSE requests'[i] = requests[i]
       ELSE requests' = requests]_vars

\* both requests of the pending list were rejected by the effect
C34_Witness ==
    /\ AllInMaintenance(dashboard.systems)
    /\ Len(dashboard.pendingRequests) = Cardinality(ReqIds)
    /\ \A i \in ReqIds : /\ requests[i].status = "rejected"
                          /\ "rejectionReason" \in DOMAIN requests[i]

====
